---- MODULE Spec2Model ----
(***************************************************************************)
(* A model of ascii-art (src/src/main.rs): the command-line entry point,   *)
(* the stdin reader thread of read_stdin, the AsciiPrinter builder and the *)
(* sampling loop of into_print.                                            *)
(*                                                                         *)
(* A string that the code takes apart (a path, the --chars value, a line   *)
(* of standard input) is a sequence of one-character strings; a message    *)
(* or an output line is a string, built by concatenation as format! does.  *)
(* f32 values are pairs <<m, e>> standing for m * 2^e, with m = 0 or       *)
(* 2^23 <= m < 2^24, and the arithmetic rounds to nearest, ties to even,   *)
(* as IEEE-754 binary32 does.  A u32 that may exceed 2^31 - 1 (the scale)  *)
(* is a pair of 16-bit halves.                                             *)
(***************************************************************************)
EXTENDS Integers, Sequences, FiniteSets, TLC

(***************************************************************************)
(* IEEE-754 binary32 arithmetic on non-negative values                     *)
(***************************************************************************)
\* 2^23 and 2^24: the range of a normalised 24-bit significand.
MantLo == 8388608
MantHi == 16777216
\* 2^12: the limb used to form a 48-bit product from 24-bit factors.
Limb == 4096

FZero == <<0, 0>>

\* Round-to-nearest-even of the significand q whose discarded part is
\* rem/den (0 <= rem < den), renormalising when the carry reaches 2^24.
FRound(q, rem, den, e) ==
    LET up == (2 * rem > den) \/ (2 * rem = den /\ q % 2 = 1)
        r  == IF up THEN q + 1 ELSE q
    IN  IF r = MantHi THEN <<MantLo, e + 1>> ELSE <<r, e>>

\* Shift a non-zero integer below 2^24 left until its top bit is bit 23.
RECURSIVE FNorm(_, _)
FNorm(m, e) == IF m >= MantLo THEN <<m, e>> ELSE FNorm(2 * m, e - 1)

\* `n as f32` for an integer 0 <= n < 2^24 (exact).
F32(n) == IF n = 0 THEN FZero ELSE FNorm(n, 0)

\* a * b
FMul(a, b) ==
    IF a[1] = 0 \/ b[1] = 0 THEN FZero
    ELSE LET a1 == a[1] \div Limb
             a0 == a[1] % Limb
             b1 == b[1] \div Limb
             b0 == b[1] % Limb
             p0 == a0 * b0
             t1 == a1 * b0 + a0 * b1 + (p0 \div Limb)
             hi == a1 * b1 + (t1 \div Limb)
             lo == (t1 % Limb) * Limb + (p0 % Limb)
             e  == a[2] + b[2]
         IN  IF hi >= MantLo
             THEN FRound(hi, lo, MantHi, e + 24)
             ELSE FRound(2 * hi + (lo \div MantLo), lo % MantLo, MantLo, e + 23)

\* a + b
FAdd(a, b) ==
    IF b[1] = 0 THEN a
    ELSE IF a[1] = 0 THEN b
    ELSE LET big   == IF a[2] > b[2] \/ (a[2] = b[2] /\ a[1] >= b[1]) THEN a ELSE b
             small == IF big = a THEN b ELSE a
             d     == big[2] - small[2]
         IN  IF d > 25 THEN big
             ELSE LET sh  == 2 ^ d
                      s   == big[1] + (small[1] \div sh)
                      rem == small[1] % sh
                  IN  IF s < MantHi
                      THEN FRound(s, rem, sh, big[2])
                      ELSE FRound(s \div 2, (s % 2) * sh + rem, 2 * sh, big[2] + 1)

\* Long division: k more quotient bits of r / d appended to q (r < d).
RECURSIVE FLongDiv(_, _, _, _)
FLongDiv(q, r, d, k) ==
    IF k = 0 THEN <<q, r>>
    ELSE IF 2 * r >= d THEN FLongDiv(2 * q + 1, 2 * r - d, d, k - 1)
                       ELSE FLongDiv(2 * q, 2 * r, d, k - 1)

\* a / b, b non-zero
FDiv(a, b) ==
    IF a[1] = 0 THEN FZero
    ELSE LET e == a[2] - b[2]
         IN  IF a[1] >= b[1]
             THEN LET qr == FLongDiv(1, a[1] - b[1], b[1], 23)
                  IN  FRound(qr[1], qr[2], b[1], e - 23)
             ELSE LET qr == FLongDiv(0, a[1], b[1], 24)
                  IN  FRound(qr[1], qr[2], b[1], e - 24)

\* `a as usize` for a value below 2^24: truncation toward zero.
FTrunc(a) ==
    IF a[2] >= 0 THEN a[1] * (2 ^ a[2])
    ELSE IF a[2] < -24 THEN 0
    ELSE a[1] \div (2 ^ (-a[2]))

\* The f32 nearest to the decimal literal num/den, as rustc parses it.
F32Lit(num, den) == FDiv(F32(num), F32(den))

(***************************************************************************)
(* u32 values as 16-bit halves: the value is hi * 2^16 + lo                *)
(***************************************************************************)
\* 2^16
Half == 65536

U32(n) == [hi |-> n \div Half, lo |-> n % Half]
U32Zero == U32(0)

\* `a * 2` on u32: the wrapped product and whether it overflowed.
U32Double(a) ==
    LET lo2 == 2 * a.lo
        hi2 == 2 * a.hi + (lo2 \div Half)
    IN  [v |-> [hi |-> hi2 % Half, lo |-> lo2 % Half], overflow |-> hi2 >= Half]

\* `n % d` for a u32 n below 2^16 and a non-zero u32 d.
U32Rem(n, d) == IF d.hi > 0 THEN n ELSE n % d.lo

(***************************************************************************)
(* Option, Result and the error type                                       *)
(***************************************************************************)
None == [tag |-> "None"]
Some(v) == [tag |-> "Some", v |-> v]
Ok(v) == [tag |-> "Ok", v |-> v]
Err(e) == [tag |-> "Err", e |-> e]
Panic(msg) == [tag |-> "Panic", msg |-> msg]
Unit == <<>>

\* struct AppError { kind, detail }
AppError(kind, detail) == [kind |-> kind, detail |-> detail]

\* impl fmt::Display for AppError; to_string() of an AppError is this text.
Display(e) ==
    CASE e.kind = "io"   -> "io error: " \o e.detail
      [] e.kind = "img"  -> "load img error: " \o e.detail
      [] e.kind = "conf" -> "configuration error: " \o e.detail
      [] OTHER           -> "Unknown error occured: " \o e.detail

\* #[derive(Debug)] for AppError: the text of {:?}.
Debug(e) ==
    "AppError { kind: \"" \o e.kind \o "\", detail: \"" \o e.detail \o "\" }"

(***************************************************************************)
(* Characters and strings                                                  *)
(***************************************************************************)
\* const DEFAULT_CHARS: &str = ". ' , ^ \" ~ + - = # @ $"
DEFAULT_CHARS ==
    <<".", " ", "'", " ", ",", " ", "^", " ", "\"", " ", "~", " ", "+", " ",
      "-", " ", "=", " ", "#", " ", "@", " ", "$">>

IsWhitespace(c) == c \in {" ", "\t", "\n", "\r"}

\* str::replace(' ', ""): every space removed.
RECURSIVE RemoveSpaces(_)
RemoveSpaces(s) ==
    IF s = <<>> THEN <<>>
    ELSE IF Head(s) = " " THEN RemoveSpaces(Tail(s))
    ELSE <<Head(s)>> \o RemoveSpaces(Tail(s))

\* str::trim(): leading and trailing whitespace removed.
RECURSIVE TrimStart(_)
TrimStart(s) ==
    IF s # <<>> /\ IsWhitespace(Head(s)) THEN TrimStart(Tail(s)) ELSE s

RECURSIVE TrimEnd(_)
TrimEnd(s) ==
    IF s # <<>> /\ IsWhitespace(s[Len(s)])
    THEN TrimEnd(SubSeq(s, 1, Len(s) - 1)) ELSE s

Trim(s) == TrimEnd(TrimStart(s))

\* The text of a sequence of characters, as {} formats a &str.
RECURSIVE Str(_)
Str(s) == IF s = <<>> THEN "" ELSE Head(s) \o Str(Tail(s))

(***************************************************************************)
(* Bounds of the model                                                     *)
(***************************************************************************)
\* Decoded images are 1..MaxW wide and 1..MaxH high.
MaxW == 3
MaxH == 7
\* Pixel patterns 0..MaxSeed (a rotation of Colors).
MaxSeed == 1
\* Scales 0..MaxScale, besides the two above 2^31 - 1 in BigScales.
MaxScale == 3
\* set_chars is given strings of 0..MaxChars characters in FnSpec.
MaxChars == 30

(***************************************************************************)
(* The environment: files, decoded images, standard input                  *)
(***************************************************************************)
Colors == << <<0, 0, 0>>, <<255, 255, 255>>, <<85, 85, 85>>, <<255, 0, 0>>,
             <<0, 170, 86>> >>

\* DynamicImage: dimensions and pixel access (the pixels are a pattern).
Images ==
    [width : 1..MaxW, height : 1..MaxH, seed : 0..MaxSeed]

\* GenericImageView::get_pixel
get_pixel(img, x, y) == Colors[((img.seed + x + 2 * y) % Len(Colors)) + 1]

GoodPath == <<"a">>
MissingPath == <<"b">>
Paths == {GoodPath, MissingPath}

DecoderMsg == "No such file or directory (os error 2)"

\* image::open(src): what decoding the file at src can yield.
image_open(src) ==
    IF src = GoodPath THEN {Ok(img) : img \in Images}
    ELSE {Err(DecoderMsg)}

\* What read_line can find on standard input.
StdinInputs ==
    { [tag |-> "Eof"],
      [tag |-> "InvalidUtf8"],
      [tag |-> "Line", s |-> <<" ", "a", " ", "\n">>],
      [tag |-> "Line", s |-> <<"b", "\n">>],
      [tag |-> "Line", s |-> <<" ", "\t", "\n">>] }

\* 2^31 and 2^31 + 1 as u32.
BigScales == { [hi |-> 32768, lo |-> 0], [hi |-> 32768, lo |-> 1] }
Scales == {U32(n) : n \in 0..MaxScale} \cup BigScales

\* Values of --chars: the default, "AB", and the empty string.
ArgChars == {DEFAULT_CHARS, <<"A", "B">>, <<>>}

\* struct Args after Args::parse(): clap fills chars and scale with their
\* defaults, so both are Some; any u32 is accepted for scale.
ArgsSet ==
    [chars : {Some(c) : c \in ArgChars},
     scale : {Some(n) : n \in Scales},
     src   : {None} \cup {Some(q) : q \in Paths}]

(***************************************************************************)
(* AsciiPrinter                                                            *)
(***************************************************************************)
\* impl Default for AsciiPrinter
default ==
    [src_img |-> None,
     chars   |-> <<" ">> \o RemoveSpaces(DEFAULT_CHARS),
     scale   |-> U32(3)]

\* load_image, given the outcome of image::open(src): the outcome is
\* stored, with a decode error wrapped as AppError { kind: "img", .. }.
load_image(self, opened) ==
    [src_img |-> Some(IF opened.tag = "Ok" THEN opened
                      ELSE Err(AppError("img", opened.e))),
     chars   |-> self.chars,
     scale   |-> self.scale]

set_chars(self, intense_chars) ==
    [src_img |-> self.src_img,
     chars   |-> <<" ">> \o intense_chars,
     scale   |-> self.scale]

set_scale(self, scale) ==
    [src_img |-> self.src_img,
     chars   |-> self.chars,
     scale   |-> scale]

\* get_char with 255 in place of 256.
get_char_index_255(chars, intensity) ==
    FTrunc(FDiv(intensity, FDiv(F32(255), F32(Len(chars)))))

\* get_char with the bucket width 256 / len taken in integer arithmetic.
get_char_index_intdiv(chars, intensity) ==
    FTrunc(FDiv(intensity, F32(256 \div Len(chars))))

\* get_char, line 104: intensity / (256_f32 / self.chars.len() as f32),
\* then `index as usize`.
get_char_index(chars, intensity) ==
    FTrunc(FDiv(intensity, FDiv(F32(256), F32(Len(chars)))))

\* get_char, line 105: self.chars[index], which panics out of bounds.
get_char(chars, intensity) ==
    LET index == get_char_index(chars, intensity)
    IN  IF index < Len(chars) THEN Ok(chars[index + 1])
        ELSE Panic("index out of bounds")

get_pixel_intensity(red, green, blue) ==
    FAdd(FAdd(FMul(F32Lit(2989, 10000), F32(red)),
              FMul(F32Lit(5870, 10000), F32(green))),
         FMul(F32Lit(1140, 10000), F32(blue)))

\* `self.scale * 2`: with overflow checks (a debug build) an overflow
\* panics; without them (a release build) the product wraps.
stride(scale, checks) ==
    LET d == U32Double(scale)
    IN  IF d.overflow /\ checks THEN Panic("attempt to multiply with overflow")
        ELSE Ok(d.v)

\* `n % d == 0` on u32, which panics on a zero divisor.
rem_is_zero(n, d) ==
    IF d = U32Zero
    THEN Panic("attempt to calculate the remainder with a divisor of zero")
    ELSE Ok(U32Rem(n, d) = 0)

\* `y % (self.scale * 2) == 0`
row_sampled(self, y, checks) ==
    LET st == stride(self.scale, checks)
    IN  IF st.tag = "Panic" THEN st ELSE rem_is_zero(y, st.v)

\* `y % (self.scale * 2) == 0 && x % self.scale == 0`
pixel_sampled(self, x, y, checks) ==
    LET row == row_sampled(self, y, checks)
    IN  IF row.tag = "Panic" \/ ~row.v THEN row ELSE rem_is_zero(x, self.scale)

(***************************************************************************)
(* State                                                                   *)
(***************************************************************************)
VARIABLES
    overflow_checks, \* whether the build checks integer overflow (debug)
    pc,              \* where the main thread is
    args,            \* Args::parse()
    image_path,      \* main's image_path, once resolved
    printer,         \* the AsciiPrinter being built, then rendered
    x, y,            \* into_print's loop counters
    stdout,          \* the lines written to standard output
    line,            \* the characters of the unfinished output line
    stderr,          \* the lines written to standard error
    result,          \* what main returns (or the panic that ends it)
    exit_code,       \* the process's exit status
    rpc,             \* where the reader thread of read_stdin is
    stdin,           \* what read_line found on standard input
    buffer,          \* the reader's buffer
    chan,            \* the mpsc channel: its queue, and which ends are alive
    probe            \* the last direct call of get_char and its outcome

vars == <<overflow_checks, pc, args, image_path, printer, x, y, stdout, line,
          stderr, result, exit_code, rpc, stdin, buffer, chan, probe>>

render_vars == <<printer, x, y, line>>
reader_vars == <<rpc, stdin, buffer, chan>>
main_vars   == <<args, image_path>>

Hint == "No image selected, run with --help for more info"

\* The state every specification starts from, but for pc and printer.
InitCommon ==
    /\ overflow_checks \in BOOLEAN
    /\ args = None
    /\ image_path = None
    /\ x = 0
    /\ y = 0
    /\ stdout = <<>>
    /\ line = ""
    /\ stderr = <<>>
    /\ result = None
    /\ exit_code = None
    /\ rpc = "unspawned"
    /\ stdin = None
    /\ buffer = <<>>
    /\ chan = [queue |-> <<>>, tx |-> FALSE, rx |-> FALSE]
    /\ probe = None

(***************************************************************************)
(* main and read_stdin (the main thread)                                   *)
(***************************************************************************)
\* let args = Args::parse();
main_parse ==
    /\ pc = "main"
    /\ \E a \in ArgsSet : args' = Some(a)
    /\ pc' = "resolve"
    /\ UNCHANGED <<overflow_checks, image_path, render_vars, stdout, stderr,
                   result, exit_code, reader_vars, probe>>

\* match args.src.as_deref(): the path given, or read_stdin() up to its
\* thread::sleep: the channel is created and the reader spawned.
main_resolve ==
    /\ pc = "resolve"
    /\ IF args.v.src.tag = "Some"
       THEN /\ image_path' = Some(args.v.src.v)
            /\ pc' = "println"
            /\ UNCHANGED <<rpc, chan>>
       ELSE /\ chan' = [queue |-> <<>>, tx |-> TRUE, rx |-> TRUE]
            /\ rpc' = "read_line"
            /\ pc' = "sleep"
            /\ UNCHANGED image_path
    /\ UNCHANGED <<overflow_checks, args, render_vars, stdout, stderr, result,
                   exit_code, stdin, buffer, probe>>

\* rx.try_recv()
try_recv(c) ==
    IF c.queue # <<>> THEN Ok(Head(c.queue))
    ELSE IF c.tx THEN Err("receiving on an empty channel")
    ELSE Err("receiving on an empty and disconnected channel")

\* read_stdin from try_recv to its return: what it returns and whether it
\* printed the hint.
read_stdin_outcome(c) ==
    LET received == try_recv(c)
    IN  IF received.tag = "Err"
        THEN [hint |-> TRUE, ret |-> Err(AppError("io", received.e))]
        ELSE IF received.v = <<>>
        THEN [hint |-> FALSE, ret |-> Err(AppError("io", "stdin is empty"))]
        ELSE [hint |-> FALSE, ret |-> Ok(received.v)]

\* The sleep is over: read_stdin polls the channel once and returns, which
\* drops rx; main's `?` returns the error, or image_path is the line.
read_stdin_try_recv ==
    /\ pc = "sleep"
    /\ LET out == read_stdin_outcome(chan)
       IN  /\ stdout' = IF out.hint THEN Append(stdout, Hint) ELSE stdout
           /\ IF out.ret.tag = "Ok"
              THEN /\ image_path' = Some(out.ret.v)
                   /\ pc' = "println"
                   /\ UNCHANGED result
              ELSE /\ result' = out.ret
                   /\ pc' = "return"
                   /\ UNCHANGED image_path
    /\ chan' = [chan EXCEPT !.rx = FALSE]
    /\ UNCHANGED <<overflow_checks, args, render_vars, stderr, exit_code, rpc,
                   stdin, buffer, probe>>

\* main without line 180: the path is not printed.
main_println_skipped ==
    /\ pc = "println"
    /\ pc' = "default"
    /\ UNCHANGED <<overflow_checks, main_vars, render_vars, stdout, stderr,
                   result, exit_code, reader_vars, probe>>

\* println!("selected img {}", image_path);
main_println ==
    /\ pc = "println"
    /\ stdout' = Append(stdout, "selected img " \o Str(image_path.v))
    /\ pc' = "default"
    /\ UNCHANGED <<overflow_checks, main_vars, render_vars, stderr, result,
                   exit_code, reader_vars, probe>>

\* let printer = AsciiPrinter::default();
main_default ==
    /\ pc = "default"
    /\ printer' = default
    /\ pc' = "load_image"
    /\ UNCHANGED <<overflow_checks, main_vars, x, y, line, stdout, stderr,
                   result, exit_code, reader_vars, probe>>

\* .load_image(&image_path)
main_load_image ==
    /\ pc = "load_image"
    /\ \E opened \in image_open(image_path.v) :
           printer' = load_image(printer, opened)
    /\ pc' = "set_chars"
    /\ UNCHANGED <<overflow_checks, main_vars, x, y, line, stdout, stderr,
                   result, exit_code, reader_vars, probe>>

\* .set_chars(args.chars.unwrap())
main_set_chars ==
    /\ pc = "set_chars"
    /\ printer' = set_chars(printer, args.v.chars.v)
    /\ pc' = "set_scale"
    /\ UNCHANGED <<overflow_checks, main_vars, x, y, line, stdout, stderr,
                   result, exit_code, reader_vars, probe>>

\* .set_scale(args.scale.unwrap()), and .into_print() is called
main_set_scale ==
    /\ pc = "set_scale"
    /\ printer' = set_scale(printer, args.v.scale.v)
    /\ pc' = "into_print"
    /\ UNCHANGED <<overflow_checks, main_vars, x, y, line, stdout, stderr,
                   result, exit_code, reader_vars, probe>>

(***************************************************************************)
(* into_print                                                              *)
(***************************************************************************)
\* Lines 113-127: the two early returns, or the loops are entered.
into_print_enter ==
    /\ pc = "into_print"
    /\ IF printer.src_img.tag = "None"
       THEN /\ result' = Err(AppError("img", "no image selected"))
            /\ pc' = "return"
       ELSE IF printer.src_img.v.tag = "Err"
       THEN /\ result' = Err(AppError("img", Display(printer.src_img.v.e)))
            /\ pc' = "return"
       ELSE /\ pc' = IF printer.src_img.v.v.height > 0 THEN "col" ELSE "end"
            /\ UNCHANGED result
    /\ x' = 0
    /\ y' = 0
    /\ UNCHANGED <<overflow_checks, main_vars, printer, line, stdout, stderr,
                   exit_code, reader_vars, probe>>

\* Lines 129-136: one iteration of `for x in 0..width`.
into_print_pixel ==
    /\ pc = "col"
    /\ x < printer.src_img.v.v.width
    /\ LET img      == printer.src_img.v.v
           sampled  == pixel_sampled(printer, x, y, overflow_checks)
           pix      == get_pixel(img, x, y)
           char     == get_char(printer.chars,
                                get_pixel_intensity(pix[1], pix[2], pix[3]))
       IN  IF sampled.tag = "Panic"
           THEN /\ result' = sampled
                /\ pc' = "return"
                /\ UNCHANGED <<x, line>>
           ELSE IF sampled.v /\ char.tag = "Panic"
           THEN /\ result' = char
                /\ pc' = "return"
                /\ UNCHANGED <<x, line>>
           ELSE /\ line' = IF sampled.v THEN line \o char.v ELSE line
                /\ x' = x + 1
                /\ UNCHANGED <<result, pc>>
    /\ UNCHANGED <<overflow_checks, main_vars, printer, y, stdout, stderr,
                   exit_code, reader_vars, probe>>

\* Lines 137-139: the row's columns are done; the line is ended if the row
\* is a sampled one, and the next row starts.
into_print_eol ==
    /\ pc = "col"
    /\ x = printer.src_img.v.v.width
    /\ LET sampled == row_sampled(printer, y, overflow_checks)
       IN  IF sampled.tag = "Panic"
           THEN /\ result' = sampled
                /\ pc' = "return"
                /\ UNCHANGED <<x, y, line, stdout>>
           ELSE /\ stdout' = IF sampled.v THEN Append(stdout, line) ELSE stdout
                /\ line' = IF sampled.v THEN "" ELSE line
                /\ y' = y + 1
                /\ x' = 0
                /\ pc' = IF y + 1 < printer.src_img.v.v.height
                         THEN "col" ELSE "end"
                /\ UNCHANGED result
    /\ UNCHANGED <<overflow_checks, main_vars, printer, stderr, exit_code,
                   reader_vars, probe>>

\* Lines 141-142: println!(); Ok(())
into_print_end ==
    /\ pc = "end"
    /\ stdout' = Append(stdout, line)
    /\ line' = ""
    /\ result' = Ok(Unit)
    /\ pc' = "return"
    /\ UNCHANGED <<overflow_checks, main_vars, printer, x, y, stderr,
                   exit_code, reader_vars, probe>>

(***************************************************************************)
(* The end of main                                                         *)
(***************************************************************************)
\* What the runtime writes to standard error and the exit status, for the
\* value main returns: Ok(()) exits 0; Err(e) prints "Error: {e:?}" and
\* exits 1; a panic prints its message and exits 101.
termination(r) ==
    CASE r.tag = "Ok"    -> [code |-> 0, msg |-> <<>>]
      [] r.tag = "Err"   -> [code |-> 1, msg |-> <<"Error: " \o Debug(r.e)>>]
      [] r.tag = "Panic" -> [code |-> 101,
                             msg |-> <<"thread 'main' panicked: " \o r.msg>>]

\* main's end if it joined the reader thread before returning.
process_exit_joined ==
    /\ pc = "return"
    /\ rpc \in {"unspawned", "done", "panicked"}
    /\ stderr' = stderr \o termination(result).msg
    /\ exit_code' = Some(termination(result).code)
    /\ pc' = "exited"
    /\ UNCHANGED <<overflow_checks, main_vars, render_vars, stdout, result,
                   reader_vars, probe>>

\* main returns (or has panicked) and the process exits, whatever the
\* reader thread is doing: nothing joins it.
process_exit ==
    /\ pc = "return"
    /\ stderr' = stderr \o termination(result).msg
    /\ exit_code' = Some(termination(result).code)
    /\ pc' = "exited"
    /\ UNCHANGED <<overflow_checks, main_vars, render_vars, stdout, result,
                   reader_vars, probe>>

(***************************************************************************)
(* The reader thread of read_stdin (lines 148-154)                         *)
(***************************************************************************)
\* What a panicking unwrap() in the reader writes to standard error.
ReaderPanic ==
    "thread '<unnamed>' panicked: called Result::unwrap() on an Err value"

\* stdin.read_line(&mut buffer).unwrap(): returns when standard input
\* delivers a line or its end; invalid UTF-8 is an Err, and unwrap panics,
\* which drops tx.
reader_read_line ==
    /\ rpc = "read_line"
    /\ pc # "exited"
    /\ \E d \in StdinInputs :
           /\ stdin' = Some(d)
           /\ IF d.tag = "InvalidUtf8"
              THEN /\ rpc' = "panicked"
                   /\ chan' = [chan EXCEPT !.tx = FALSE]
                   /\ stderr' = Append(stderr, ReaderPanic)
                   /\ UNCHANGED buffer
              ELSE /\ rpc' = "send"
                   /\ buffer' = IF d.tag = "Line" THEN d.s ELSE <<>>
                   /\ UNCHANGED <<chan, stderr>>
    /\ UNCHANGED <<overflow_checks, pc, main_vars, render_vars, stdout, result,
                   exit_code, probe>>

\* let line = buffer.trim().into(); tx.send(line).unwrap(); the thread
\* ends, dropping tx.  Sending fails once rx is dropped, and unwrap panics.
reader_send ==
    /\ rpc = "send"
    /\ pc # "exited"
    /\ IF chan.rx
       THEN /\ chan' = [chan EXCEPT !.queue = Append(@, Trim(buffer)),
                                    !.tx = FALSE]
            /\ rpc' = "done"
            /\ UNCHANGED stderr
       ELSE /\ chan' = [chan EXCEPT !.tx = FALSE]
            /\ rpc' = "panicked"
            /\ stderr' = Append(stderr, ReaderPanic)
    /\ UNCHANGED <<overflow_checks, pc, main_vars, render_vars, stdout, result,
                   exit_code, stdin, buffer, probe>>

(***************************************************************************)
(* The program                                                             *)
(***************************************************************************)
Init ==
    /\ InitCommon
    /\ pc = "main"
    /\ printer = None

MainNext ==
    \/ main_parse
    \/ main_resolve
    \/ read_stdin_try_recv
    \/ main_println
    \/ main_default
    \/ main_load_image
    \/ main_set_chars
    \/ main_set_scale
    \/ into_print_enter
    \/ into_print_pixel
    \/ into_print_eol
    \/ into_print_end
    \/ process_exit

ReaderNext == reader_read_line \/ reader_send

Next == MainNext \/ ReaderNext

Spec == Init /\ [][Next]_vars

\* The main thread is always scheduled again, so once main has returned
\* the process does exit; the reader thread is given no fairness: it may
\* stay blocked in read_line for ever.
FairSpec == Spec /\ WF_vars(process_exit)

(***************************************************************************)
(* AsciiPrinter used directly: the builder's methods in any order, then    *)
(* into_print                                                              *)
(***************************************************************************)
api_load_image ==
    /\ pc = "api"
    /\ \E src \in Paths : \E opened \in image_open(src) :
           printer' = load_image(printer, opened)
    /\ UNCHANGED <<overflow_checks, pc, main_vars, x, y, line, stdout, stderr,
                   result, exit_code, reader_vars, probe>>

api_set_chars ==
    /\ pc = "api"
    /\ \E c \in ArgChars : printer' = set_chars(printer, c)
    /\ UNCHANGED <<overflow_checks, pc, main_vars, x, y, line, stdout, stderr,
                   result, exit_code, reader_vars, probe>>

api_set_scale ==
    /\ pc = "api"
    /\ \E n \in Scales : printer' = set_scale(printer, n)
    /\ UNCHANGED <<overflow_checks, pc, main_vars, x, y, line, stdout, stderr,
                   result, exit_code, reader_vars, probe>>

api_into_print ==
    /\ pc = "api"
    /\ pc' = "into_print"
    /\ UNCHANGED <<overflow_checks, main_vars, render_vars, stdout, stderr,
                   result, exit_code, reader_vars, probe>>

ApiInit ==
    /\ InitCommon
    /\ pc = "api"
    /\ printer = default

ApiNext ==
    \/ api_load_image
    \/ api_set_chars
    \/ api_set_scale
    \/ api_into_print
    \/ into_print_enter
    \/ into_print_pixel
    \/ into_print_eol
    \/ into_print_end

ApiSpec == ApiInit /\ [][ApiNext]_vars

(***************************************************************************)
(* get_char and get_pixel_intensity on the palettes of default() and       *)
(* set_chars                                                               *)
(***************************************************************************)
\* A string of n characters for set_chars.
FnString(n) == [k \in 1..n |-> DEFAULT_CHARS[2 * ((k - 1) % 12) + 1]]
FnChars ==
    {<<"A", "B">>, DEFAULT_CHARS} \cup {FnString(n) : n \in 0..MaxChars}
        \cup {FnString(n) : n \in {255, 256, 999}}

\* Colour components tried on get_pixel_intensity.
Components == {0, 1, 85, 128, 170, 254, 255}

\* default().set_chars(c)
fn_set_chars ==
    /\ pc = "fn"
    /\ \E c \in FnChars : printer' = set_chars(printer, c)
    /\ pc' = "fn_built"
    /\ UNCHANGED <<overflow_checks, main_vars, x, y, line, stdout, stderr,
                   result, exit_code, reader_vars, probe>>

\* self.get_char(i as f32) for an integer intensity.
fn_get_char ==
    /\ pc \in {"fn", "fn_built"}
    /\ \E i \in 0..255 :
           probe' = Some([kind |-> "int", n |-> i, chars |-> printer.chars,
                          index |-> get_char_index(printer.chars, F32(i)),
                          char |-> get_char(printer.chars, F32(i))])
    /\ pc' = "fn_done"
    /\ UNCHANGED <<overflow_checks, main_vars, render_vars, stdout, stderr,
                   result, exit_code, reader_vars>>

\* self.get_char(Self::get_pixel_intensity(r, g, b)), as lines 132-133.
fn_pixel_char ==
    /\ pc \in {"fn", "fn_built"}
    /\ \E r \in Components, g \in Components, b \in Components :
           LET intensity == get_pixel_intensity(r, g, b)
           IN  probe' = Some([kind |-> "rgb", n |-> FTrunc(intensity),
                              chars |-> printer.chars,
                              index |-> get_char_index(printer.chars, intensity),
                              char |-> get_char(printer.chars, intensity)])
    /\ pc' = "fn_done"
    /\ UNCHANGED <<overflow_checks, main_vars, render_vars, stdout, stderr,
                   result, exit_code, reader_vars>>

FnInit ==
    /\ InitCommon
    /\ pc = "fn"
    /\ printer = default

FnNext == fn_set_chars \/ fn_get_char \/ fn_pixel_char

FnSpec == FnInit /\ [][FnNext]_vars

(***************************************************************************)
(* Properties                                                              *)
(***************************************************************************)
\* The image into_print renders, once one is loaded.
Loaded ==
    /\ printer # None
    /\ printer.src_img.tag = "Some"
    /\ printer.src_img.v.tag = "Ok"

Rendered == pc \in {"return", "exited"} /\ Loaded

\* The rows and columns the specification samples for a scale s >= 1, with
\* 2 * s the mathematical product: y mod (2 * s) = 0 and x mod s = 0.
SpecRows(img, s) ==
    LET Test(r) == IF s.hi > 0 THEN r = 0 ELSE r % (2 * s.lo) = 0
    IN  SelectSeq([k \in 1..img.height |-> k - 1], Test)

SpecCols(img, s) ==
    LET Test(c) == U32Rem(c, s) = 0
    IN  SelectSeq([k \in 1..img.width |-> k - 1], Test)

\* The character of pixel (c, r).
SpecChar(p, c, r) ==
    LET pix == get_pixel(p.src_img.v.v, c, r)
    IN  get_char(p.chars, get_pixel_intensity(pix[1], pix[2], pix[3])).v

RECURSIVE SpecLine(_, _, _)
SpecLine(p, cols, r) ==
    IF cols = <<>> THEN ""
    ELSE SpecChar(p, Head(cols), r) \o SpecLine(p, Tail(cols), r)

\* The lines the specification has into_print emit: one per sampled row,
\* then one empty line.
SpecGrid(p) ==
    LET img  == p.src_img.v.v
        rows == SpecRows(img, p.scale)
    IN  [k \in 1..Len(rows) |-> SpecLine(p, SpecCols(img, p.scale), rows[k])]
        \o <<"">>

\* What main printed before the render.
Header == <<"selected img " \o Str(image_path.v)>>

\* C1: for every loaded image and every scale s >= 1, into_print returns Ok
\* having emitted exactly one line per row y with y mod (2*s) = 0, holding
\* the characters of the pixels (x, y) with x mod s = 0 in increasing x,
\* and then exactly one empty line.
C1_RenderGrid ==
    (Rendered /\ printer.scale # U32Zero)
        => /\ result = Ok(Unit)
           /\ stdout = Header \o SpecGrid(printer)
           /\ line = ""

\* The same for the scales below 2^31, where scale * 2 does not overflow.
RenderGridBelowOverflow ==
    (Rendered /\ printer.scale # U32Zero /\ printer.scale.hi < 32768)
        => /\ result = Ok(Unit)
           /\ stdout = Header \o SpecGrid(printer)
           /\ line = ""

\* C4: whenever into_print is about to evaluate y % (scale * 2) or
\* x % scale, the scale is at least 1, and so is the divisor scale * 2: a
\* scale of 0 given on the command line never reaches the sampling loop.
C4_ScaleNeverZero ==
    pc = "col"
        => /\ printer.scale # U32Zero
           /\ LET st == stride(printer.scale, overflow_checks)
              IN  st.tag = "Ok" => st.v # U32Zero

\* C2: get_char's index is strictly below the palette length, so the
\* lookup self.chars[index] succeeds, for every integer intensity 0..255,
\* every pixel value tried, and every palette of default() or set_chars.
C2_IndexInBounds ==
    probe # None
        => /\ probe.v.index < Len(probe.v.chars)
           /\ probe.v.char.tag = "Ok"

\* The brightest intensity lands in the last bucket of a 24-entry palette.
C2_Witness ==
    /\ probe # None
    /\ probe.v.kind = "int"
    /\ probe.v.n = 255
    /\ Len(probe.v.chars) = 24
    /\ probe.v.index = 23

\* The palette of --chars "AB".
PaletteAB == set_chars(default, <<"A", "B">>).chars

ProbedAB == probe # None /\ probe.v.kind = "int" /\ probe.v.chars = PaletteAB

\* C7 as stated: with chars "AB" the palette is {space, 'A', 'B'} and the
\* integer intensities 0..84 map to space, 85..169 to 'A', 170..255 to 'B'.
C7_BucketsAsStated ==
    ProbedAB
        => /\ probe.v.chars = <<" ", "A", "B">>
           /\ probe.v.char =
                  Ok(IF probe.v.n < 85 THEN " "
                     ELSE IF probe.v.n < 170 THEN "A" ELSE "B")

\* C7 amended: the buckets are 256/3 wide, so the integer intensities
\* 0..85 map to space, 86..170 to 'A' and 171..255 to 'B'.
C7_Buckets ==
    ProbedAB
        => /\ probe.v.chars = <<" ", "A", "B">>
           /\ probe.v.char =
                  Ok(IF probe.v.n <= 85 THEN " "
                     ELSE IF probe.v.n <= 170 THEN "A" ELSE "B")

\* Intensity 85 with the palette of "AB": the character is the space.
C7_Witness == ProbedAB /\ probe.v.n = 85 /\ probe.v.char = Ok(" ")

\* C3: with no src argument and standard input at its end, or with nothing
\* delivered yet, once read_stdin has returned the program has failed with
\* an io error and has printed the hint, whichever thread ran first.
C3_NoSourceHint ==
    (/\ args # None
     /\ args.v.src = None
     /\ pc \in {"println", "default", "load_image", "set_chars", "set_scale",
                "into_print", "col", "end", "return", "exited"}
     /\ (stdin = None \/ stdin.v.tag = "Eof"))
        => /\ result.tag = "Err"
           /\ result.e.kind = "io"
           /\ \E k \in 1..Len(stdout) : stdout[k] = Hint

\* The categories of the message the specification gives.
Categories == {"io", "load-image", "configuration", "unknown"}

\* C6: when the program ends on an error, the exit status is non-zero and
\* the message shown is `<category> error: <detail>` with the detail of the
\* error value.
C6_ErrorMessageForm ==
    (pc = "exited" /\ result.tag = "Err")
        => /\ exit_code # Some(0)
           /\ stderr # <<>>
           /\ \E c \in Categories :
                  stderr[Len(stderr)] = c \o " error: " \o result.e.detail

\* Every line `selected img <path>` the program can print.
SelectedLines ==
    {"selected img " \o Str(q) :
        q \in Paths \cup {Trim(d.s) : d \in {i \in StdinInputs : i.tag = "Line"}}}

\* C8: `selected img <path>` is printed exactly once and first whenever a
\* path is resolved, nothing is printed before it, and it is never printed
\* when input resolution fails.
C8_SelectedLineFirst ==
    LET printed == {k \in 1..Len(stdout) : stdout[k] \in SelectedLines}
    IN  /\ image_path = None => printed = {}
        /\ (image_path # None /\ pc = "println")
               => (stdout = <<>> /\ line = "")
        /\ (image_path # None /\ pc # "println")
               => /\ printed = {1}
                  /\ stdout[1] = "selected img " \o Str(image_path.v)
        /\ (pc \in {"col", "end"} \/ line # "") => 1 \in printed

\* A run that took its path from standard input and rendered the image.
C8_Witness ==
    /\ pc = "exited"
    /\ result = Ok(Unit)
    /\ stdin # None
    /\ Len(stdout) >= 3
    /\ stdout[1] = "selected img a"

\* C9: at render time the palette holds no whitespace after its leading
\* space, and with the default --chars it is the palette of default().
C9_PaletteWithoutWhitespace ==
    pc \in {"into_print", "col", "end"}
        => /\ \A k \in 2..Len(printer.chars) : ~IsWhitespace(printer.chars[k])
           /\ args.v.chars.v = DEFAULT_CHARS => printer.chars = default.chars

\* The timeout has fired with the reader still blocked in read_line.
TimedOutBlocked == pc = "return" /\ rpc = "read_line"

\* C10: when the timeout fires with the reader still blocked in read_line,
\* read_stdin has returned the io error, and the process then exits with
\* it whatever the reader does from there on.
C10_AbandonedReaderNoHang ==
    /\ [](TimedOutBlocked
            => result = Err(AppError("io", "receiving on an empty channel")))
    /\ TimedOutBlocked ~> (pc = "exited" /\ exit_code = Some(1))

\* The process has exited on the io error with the reader still blocked.
C10_Witness ==
    /\ pc = "exited"
    /\ rpc = "read_line"
    /\ result = Err(AppError("io", "receiving on an empty channel"))
    /\ exit_code = Some(1)

\* C5: load_image never fails when called and stores the decode outcome;
\* set_chars and set_scale leave the image slot as it is; into_print fails
\* with an img error whose detail is "no image selected" when no image was
\* attached, and the decoder's own message when decoding failed, and in
\* both cases prints nothing.
C5_DeferredLoadError ==
    [][/\ api_load_image
           => (printer'.src_img.tag = "Some" /\ result' = None /\ pc' = "api")
       /\ (api_set_chars \/ api_set_scale)
           => printer'.src_img = printer.src_img
       /\ (into_print_enter /\ printer.src_img.tag = "None")
           => /\ result' = Err(AppError("img", "no image selected"))
              /\ stdout' = <<>> /\ line' = ""
       /\ (into_print_enter /\ printer.src_img.tag = "Some"
                            /\ printer.src_img.v.tag = "Err")
           => /\ result' = Err(AppError("img", printer.src_img.v.e.detail))
              /\ stdout' = <<>> /\ line' = ""
      ]_vars
====
